---- MODULE Spec2Model ----
(***************************************************************************)
(* Model of the reactive cell of wasmide (src/src/signal.rs): RawSignal,   *)
(* its reentrancy state machine, the subscriber registry with deferred     *)
(* deletion, and the Unsubscriber capability.                              *)
(*                                                                         *)
(* The program is single threaded and run-to-completion; the only          *)
(* concurrency is reentrancy: a callback invoked by try_mutate or for_each *)
(* may call back into the cell.  The model therefore keeps an explicit     *)
(* call stack.  User code (the top level, or the body of a callback) is    *)
(* nondeterministic: it may call any public operation of the cell.         *)
(***************************************************************************)
EXTENDS Integers, Sequences, FiniteSets, TLC

\* ---------------------------------------------------------------- bounds
MaxSubs == 4        \* for_each calls in one behaviour
MaxMuts == 3        \* accepted try_mutate calls in one behaviour
MaxOps  == 5        \* public operations called in one behaviour
IdBits  == 2        \* width of the id counter (NonZeroU32 in the source)
VecCap  == 4        \* entries the registry's Vec can hold before push fails
MaxWraps == 1       \* calls of droppable

MaxId  == 2^IdBits - 1                 \* NonZeroU32::MAX at the modelled width
Closures == {0, 5}                     \* closures |data| *data += n, by n
Values == {5 * n : n \in 0..MaxMuts}    \* the values a cell may hold
Obs    == 1..MaxSubs                   \* observers, numbered by for_each call

VARIABLES
    value,          \* InnerSignal.1: the stored data
    state,          \* RawSignal.state
    subscribers,    \* RawSignal.subscribers: Vec<Notifier>
    next_id,        \* RawSignal.next_id
    needs_delete,   \* RawSignal.needs_delete
    alive,          \* the Rc<InnerSignal> still has a strong reference
    unsubs,         \* the Unsubscriber values handed out, per observer
    cellY,          \* a second cell Y: its RawSignal fields and its data
    stack,          \* the call stack of operations in progress
    log             \* history of calls, callbacks and returns (observation)

vars == <<value, state, subscribers, next_id, needs_delete, alive, unsubs,
          cellY, stack, log>>

\* ------------------------------------------------------------ data types
\* struct Notifier { state: Active(id) | Deleted(id), notify }
\* the callback is identified by the observer that registered it
Notifier(id, o) == [id |-> id, deleted |-> FALSE, obs |-> o]

\* the tombstone test inverted
DeletedInverted(n) == ~n.deleted

\* Notifier::deleted
Deleted(n) == n.deleted

\* NotifierState::Deleted(id) written over the entry's state
MarkDeleted(n) == [n EXCEPT !.deleted = TRUE]

\* a frame of the call stack
Frame(kind, o, i, old) == [kind |-> kind, obs |-> o, i |-> i, old |-> old]

\* an entry of the history
Ev(t, o, v, by, pass, st) ==
    [t |-> t, obs |-> o, val |-> v, by |-> by, pass |-> pass, st |-> st,
     reg |-> <<>>]

\* Option<NotifierRef>: Some(id) or None, "absent" before for_each returned
NoUnsub ==
    [id |-> 0, orig |-> "absent", clone |-> "absent", scoped |-> "absent"]

\* Signal::new(0) for the second cell: RawSignal::new and the data
NewCell ==
    [value |-> 0, state |-> "Idling", subscribers |-> <<>>, next_id |-> 1,
     needs_delete |-> FALSE]

\* --------------------------------------------------------------- helpers
Top == stack[Len(stack)]
Pop(s) == SubSeq(s, 1, Len(s) - 1)

\* user code is in control: the top level, or the body of a callback
UserCode == IF stack = <<>> THEN TRUE ELSE Top.kind \in {"cb", "cbY"}
Caller == IF stack = <<>> THEN 0 ELSE Top.obs

CountEv(t) == Cardinality({j \in 1..Len(log) : log[j].t = t})
Npass == CountEv("mut")
Nwraps == CountEv("wrap")
NpassY == CountEv("mutY")
NsubsY == CountEv("subY")
Nsubs == CountEv("sub")
Nops  == Cardinality({j \in 1..Len(log) :
                        log[j].t \in {"mut", "err", "sub", "cancel", "clone",
                                      "take", "mutY", "errY", "subY"}})

InPass == \E j \in 1..Len(stack) : stack[j].kind = "mutate"
CurPass == IF InPass THEN Npass ELSE 0

\* ------------------------------------------------- reading the history
IsOp(e) == e.t \in {"mut", "err", "sub", "cancel", "clone"}
OpEvents == SelectSeq(log, IsOp)

EvIdx(t, o) == CHOOSE j \in 1..Len(log) : log[j].t = t /\ log[j].obs = o
SubIdx(o) == EvIdx("sub", o)
Returned(o) == \E j \in 1..Len(log) : log[j].t = "ret" /\ log[j].obs = o
RetIdx(o) == EvIdx("ret", o)

\* the callback invocations of observer o in pass p (p = 0: initial calls)
Calls(o, p) == {j \in 1..Len(log) :
                  log[j].t = "call" /\ log[j].obs = o /\ log[j].pass = p}

\* the values observer o has recorded, in order
Seen(o) ==
    LET s == SelectSeq(log, LAMBDA e : e.t = "call" /\ e.obs = o)
    IN [j \in 1..Len(s) |-> s[j].val]

\* the index and the value of the p-th accepted mutation
MutIdx(p) == CHOOSE j \in 1..Len(log) : log[j].t = "mut" /\ log[j].pass = p
MutVal(p) == log[MutIdx(p)].val

\* pass p has run to its end
PassOver(p) == p < Npass \/ (p = Npass /\ ~InPass)

\* the identifiers returned by for_each, in the order they were returned
Issued ==
    LET s == SelectSeq(log, LAMBDA e : e.t = "ret")
    IN [j \in 1..Len(s) |-> s[j].val]

\* calls of unsubscribe that reached RawSignal::unsubscribe with identifier id
CancelsOfId(id) == {j \in 1..Len(log) :
                      /\ log[j].t = "cancel" /\ log[j].val = 1
                      /\ unsubs[log[j].obs].id = id}

\* pass p: the registry's live observers when the pass started
RegAtStart(p) == log[MutIdx(p)].reg
Range(q) == {q[j] : j \in 1..Len(q)}

\* the cancellations made during pass p that carried identifier id
CancelsOfIdIn(id, p) == {j \in CancelsOfId(id) : log[j].pass = p}

\* no other subscription was given the identifier of observer o
IdUnique(o) == \A o2 \in Obs : o2 # o => unsubs[o2].id # unsubs[o].id

\* the observers of the live notifiers, in registry order
LiveObs ==
    LET s == SelectSeq(subscribers, LAMBDA n : ~n.deleted)
    IN [j \in 1..Len(s) |-> s[j].obs]

\* a wrapping counter in place of the saturating one
WrappingAdd(id) == IF id < MaxId THEN id + 1 ELSE 1

\* NonZeroU32::saturating_add(1)
SaturatingAdd(id) == IF id < MaxId THEN id + 1 ELSE MaxId

\* Vec::retain(f): keeps the elements for which f is true
RECURSIVE Retain(_, _)
Retain(s, keepDeleted) ==
    IF s = <<>> THEN <<>>
    ELSE IF Deleted(s[1]) = keepDeleted
         THEN <<s[1]>> \o Retain(Tail(s), keepDeleted)
         ELSE Retain(Tail(s), keepDeleted)

\* Vec::swap_remove(index): the last element takes the freed place
SwapRemove(s, index) ==
    IF index = Len(s) THEN SubSeq(s, 1, Len(s) - 1)
    ELSE [SubSeq(s, 1, Len(s) - 1) EXCEPT ![index] = s[Len(s)]]

\* a push that puts the new entry first
PushFront(s, n) == <<n>> \o s

\* Vec::push
Push(s, n) == Append(s, n)

\* binary_search_by_key(&id, Notifier::id) on the range [left, right) of s
\* (positions counted from 0): the position found, counted from 1, or 0
\* for Err
RECURSIVE BSearch(_, _, _, _)
BSearch(s, id, left, right) ==
    IF left >= right THEN 0
    ELSE LET mid == left + ((right - left) \div 2)
         IN IF s[mid + 1].id < id THEN BSearch(s, id, mid + 1, right)
            ELSE IF s[mid + 1].id > id THEN BSearch(s, id, left, mid)
            ELSE mid + 1

BinarySearch(s, id) == BSearch(s, id, 0, Len(s))

\* Vec::remove(index)
Remove(s, index) == SubSeq(s, 1, index - 1) \o SubSeq(s, index + 1, Len(s))

\* the sweep at the end of notify_all: (*subscribers).retain(Notifier::deleted)
Sweep(s) == Retain(s, TRUE)

\* f(&mut data): the closure applied to the stored value
Apply(f, v) == v + f

\* a guard that rejects only while a subscriber's initial call runs
RejectedOnlySubscribing == state = "Subscribing"

\* a try_mutate without the guard
RejectedNever == FALSE

\* a guard that only rejects the reentrant write
RejectedOnlyMutating == state = "Mutating"

\* the guard of try_mutate
MutateRejected == state # "Idling"

\* an initial call made only when already Subscribing
FiresOnlySubscribing == state = "Subscribing"

\* an initial call made in every state
FiresAlways == TRUE

\* the registry length taken once, when the pass starts
NotifyLenSnapshot == Len(RegAtStart(Npass))

\* notify_all: (*subscribers).len(), read again on every step of the loop
NotifyLen == Len(subscribers)

\* unsubscribe that never defers the removal
DeferredNever == FALSE

\* unsubscribe that defers on the wrong state
DeferredWhileSubscribing == state = "Subscribing"

\* unsubscribe: a pass is iterating the registry, the removal is deferred
Deferred == state = "Mutating"

\* Vec::push: the allocation has reached its limit, the process aborts
PushAborts == Len(subscribers) >= VecCap

\* an error path that resets the state flag
MutateErrResets ==
    /\ state' = "Idling"
    /\ UNCHANGED <<value, subscribers, next_id, needs_delete, alive, unsubs,
                   stack>>

\* try_mutate: return Err(SignalUpdatingError)
MutateErr ==
    UNCHANGED <<value, state, subscribers, next_id, needs_delete, alive,
                unsubs, stack>>

\* a pass that leaves the state flag as it is
FinishedStale == "Mutating"

\* try_mutate: self.state.set(SignalState::Idling) after notify_all
FinishedState == "Idling"

\* a for_each that always leaves the cell Idling
RestoredIdle(fr) == "Idling"

\* for_each: self.state.set(old_state) after the initial call
RestoredState(fr) == fr.old

\* the guard of the initial call of for_each
FiresImmediately == state # "Mutating"

\* --------------------------------------------------------------- initial
\* Signal::new(value): RawSignal::new() and the data
Init ==
    /\ value \in {0}
    /\ state = "Idling"
    /\ subscribers = <<>>
    /\ next_id = 1
    /\ needs_delete = FALSE
    /\ alive = TRUE
    /\ unsubs = [o \in Obs |-> NoUnsub]
    /\ cellY = NewCell
    /\ stack = <<>>
    /\ log = <<>>

\* ------------------------------------------------------------ try_mutate
\* Signal::try_mutate(f) -> RawSignal::try_mutate: rejected unless Idling,
\* else state := Mutating, f is applied to the data, and notify_all starts
TryMutate(f) ==
    /\ alive /\ UserCode
    /\ Nops < MaxOps
    /\ IF MutateRejected
       THEN /\ log' = Append(log, Ev("err", 0, value, Caller, CurPass, state))
            /\ MutateErr
       ELSE /\ Npass < MaxMuts
            /\ state' = "Mutating"
            /\ value' = Apply(f, value)
            /\ stack' = Append(stack, Frame("mutate", 0, 0, state))
            /\ log' = Append(log, [Ev("mut", 0, Apply(f, value), Caller,
                                      Npass + 1, state)
                                   EXCEPT !.reg = LiveObs])
            /\ UNCHANGED <<subscribers, next_id, needs_delete, alive, unsubs>>
    /\ UNCHANGED cellY

\* notify_all, loop body, live entry: (*notifier.notify)()
NotifyInvoke ==
    /\ stack # <<>> /\ Top.kind = "mutate"
    /\ Top.i < NotifyLen
    /\ ~Deleted(subscribers[Top.i + 1])
    /\ LET n == subscribers[Top.i + 1] IN
         /\ stack' = Append(stack, Frame("cb", n.obs, 0, state))
         /\ log' = Append(log, Ev("call", n.obs, value, 0, CurPass, state))
    /\ UNCHANGED <<value, state, subscribers, next_id, needs_delete, alive,
                   unsubs>>
    /\ UNCHANGED cellY

\* notify_all, loop body, tombstoned entry: skipped, i += 1
NotifySkip ==
    /\ stack # <<>> /\ Top.kind = "mutate"
    /\ Top.i < NotifyLen
    /\ Deleted(subscribers[Top.i + 1])
    /\ stack' = [stack EXCEPT ![Len(stack)].i = @ + 1]
    /\ UNCHANGED <<value, state, subscribers, next_id, needs_delete, alive,
                   unsubs, log>>
    /\ UNCHANGED cellY

\* the callback invoked by notify_all returns: i += 1
NotifyReturn ==
    /\ Len(stack) >= 2 /\ Top.kind = "cb"
    /\ stack[Len(stack) - 1].kind = "mutate"
    /\ stack' = [Pop(stack) EXCEPT ![Len(stack) - 1].i = @ + 1]
    /\ UNCHANGED <<value, state, subscribers, next_id, needs_delete, alive,
                   unsubs, log>>
    /\ UNCHANGED cellY

\* notify_all, loop exit: the sweep; then try_mutate sets Idling, returns Ok
NotifyFinish ==
    /\ stack # <<>> /\ Top.kind = "mutate"
    /\ Top.i >= NotifyLen
    /\ subscribers' = IF needs_delete THEN Sweep(subscribers) ELSE subscribers
    /\ needs_delete' = FALSE
    /\ state' = FinishedState
    /\ stack' = Pop(stack)
    /\ log' = Append(log, Ev("ok", 0, value, 0, CurPass, state))
    /\ UNCHANGED <<value, next_id, alive, unsubs>>
    /\ UNCHANGED cellY

\* -------------------------------------------------------------- for_each
\* Signal::for_each -> RawSignal::for_each, entry.  Unless Mutating, the
\* state is forced to Subscribing and f() is called; else the notifier is
\* registered at once.
Register(o) ==
    /\ next_id' = SaturatingAdd(next_id)
    /\ subscribers' = Push(subscribers, Notifier(next_id, o))
    /\ unsubs' = [unsubs EXCEPT ![o] =
                     [id |-> next_id, orig |-> "Some", clone |-> "absent",
                      scoped |-> "absent"]]

\* the push fails: the id was taken, the process aborts inside for_each
Abort ==
    /\ next_id' = SaturatingAdd(next_id)
    /\ log' = Append(log, Ev("abort", 0, value, Caller, CurPass, state))
    /\ UNCHANGED <<value, subscribers, needs_delete, alive, unsubs>>

\* (a call whose push fails ends the behaviour and is not counted in the
\* bounds on the calls)
ForEach ==
    /\ alive /\ UserCode
    /\ IF ~FiresImmediately /\ PushAborts
       THEN /\ Abort
            /\ stack' = Append(stack, Frame("abort", 0, 0, state))
            /\ UNCHANGED state
       ELSE /\ Nops < MaxOps /\ Nsubs < MaxSubs
            /\ LET o == Nsubs + 1
                   sub == Ev("sub", o, value, Caller, CurPass, state)
               IN IF FiresImmediately
                  THEN /\ state' = "Subscribing"
                       /\ stack' = stack \o
                                     <<Frame("for_each", o, 0, state),
                                       Frame("cb", o, 0, "Subscribing")>>
                       /\ log' = log \o
                                   <<sub, Ev("call", o, value, 0, 0, state)>>
                       /\ UNCHANGED <<value, subscribers, next_id,
                                      needs_delete, alive, unsubs>>
                  ELSE /\ Register(o)
                       /\ log' = log \o
                                   <<sub, Ev("ret", o, next_id, 0, CurPass,
                                             state)>>
                       /\ UNCHANGED <<value, state, needs_delete, alive,
                                      stack>>
    /\ UNCHANGED cellY

\* the initial call f() returns: the old state is restored, the id is taken
\* and the notifier is pushed
ForEachReturn ==
    /\ Len(stack) >= 2 /\ Top.kind = "cb"
    /\ stack[Len(stack) - 1].kind = "for_each"
    /\ LET fr == stack[Len(stack) - 1] IN
         /\ state' = RestoredState(fr)
         /\ IF PushAborts
            THEN /\ Abort
                 /\ stack' = Append(Pop(stack), Frame("abort", 0, 0, state))
            ELSE /\ Register(fr.obs)
                 /\ log' = Append(log, Ev("ret", fr.obs, next_id, 0,
                                          CurPass, state))
                 /\ stack' = Pop(Pop(stack))
                 /\ UNCHANGED <<value, needs_delete, alive>>
    /\ UNCHANGED cellY

\* ----------------------------------------------------------- unsubscribe
\* the indices binary_search_by_key(&id, Notifier::id) may return: the
\* registry is sorted by id; with equal ids any match may be returned
SearchResults(id) == {j \in 1..Len(subscribers) : subscribers[j].id = id}

\* RawSignal::unsubscribe(id)
RawUnsubscribe(id) ==
    IF SearchResults(id) = {}
    THEN UNCHANGED <<subscribers, needs_delete>>
    ELSE \E index \in SearchResults(id) :
           IF Deferred
           THEN /\ subscribers' = [subscribers EXCEPT
                                      ![index] = MarkDeleted(@)]
                /\ needs_delete' = TRUE
           ELSE /\ subscribers' = Remove(subscribers, index)
                /\ UNCHANGED needs_delete

\* Unsubscriber::unsubscribe on the capability (which = "orig", "clone" or,
\* through DerefMut, the one in the scoped wrapper) of observer o: self.0.take(), Weak::upgrade, RawSignal::unsubscribe
Unsubscribe(o, which) ==
    /\ UserCode
    /\ Nops < MaxOps
    /\ unsubs[o][which] # "absent"
    /\ unsubs' = [unsubs EXCEPT ![o][which] = "None"]
    /\ IF unsubs[o][which] = "Some" /\ alive
       THEN RawUnsubscribe(unsubs[o].id)
       ELSE UNCHANGED <<subscribers, needs_delete>>
    /\ log' = Append(log, Ev("cancel", o,
                             IF unsubs[o][which] = "Some" THEN 1 ELSE 0,
                             Caller, CurPass, state))
    /\ UNCHANGED <<value, state, next_id, alive, stack>>
    /\ UNCHANGED cellY

\* Clone for Unsubscriber
CloneUnsubscriber(o) ==
    /\ UserCode
    /\ Nops < MaxOps
    /\ unsubs[o].orig # "absent" /\ unsubs[o].clone = "absent"
    /\ unsubs' = [unsubs EXCEPT ![o].clone = unsubs[o].orig]
    /\ log' = Append(log, Ev("clone", o, 0, Caller, CurPass, state))
    /\ UNCHANGED <<value, state, subscribers, next_id, needs_delete, alive,
                   stack>>
    /\ UNCHANGED cellY

\* Unsubscriber::droppable: the capability moves into the scoped wrapper
\* (called on the value for_each has just returned:
\* s.for_each(f).droppable())
Droppable(o) ==
    /\ UserCode
    /\ Nwraps < MaxWraps
    /\ log # <<>> /\ log[Len(log)].t = "ret" /\ log[Len(log)].obs = o
    /\ unsubs[o].orig # "absent" /\ unsubs[o].scoped = "absent"
    /\ unsubs' = [unsubs EXCEPT ![o].scoped = unsubs[o].orig,
                                ![o].orig = "absent"]
    /\ log' = Append(log, Ev("wrap", o, 0, Caller, CurPass, state))
    /\ UNCHANGED <<value, state, subscribers, next_id, needs_delete, alive,
                   stack>>
    /\ UNCHANGED cellY

\* a take that leaves a copy of the reference in the wrapper
TakeLeavesCopy(opt) == opt

\* Option::take in DroppableUnsubscriber::take: what stays in the wrapper
TakeLeaves(opt) == "None"

\* DroppableUnsubscriber::take: the reference moves to the returned
\* Unsubscriber, then the emptied wrapper is dropped (Drop runs unsubscribe
\* on what was left in it)
Take(o) ==
    /\ UserCode
    /\ Nops < MaxOps
    /\ unsubs[o].scoped # "absent"
    /\ unsubs' = [unsubs EXCEPT ![o].orig = unsubs[o].scoped,
                                ![o].scoped = "absent"]
    /\ IF TakeLeaves(unsubs[o].scoped) = "Some" /\ alive
       THEN RawUnsubscribe(unsubs[o].id)
       ELSE UNCHANGED <<subscribers, needs_delete>>
    /\ log' = Append(log, [Ev("take", o, 0, Caller, CurPass, state)
                              EXCEPT !.reg = LiveObs])
    /\ UNCHANGED <<value, state, next_id, alive, stack>>
    /\ UNCHANGED cellY

\* the scope holding the wrapper ends: Drop for DroppableUnsubscriber calls
\* self.0.unsubscribe()
DropScoped(o) ==
    /\ UserCode
    /\ Nops < MaxOps
    /\ unsubs[o].scoped # "absent"
    /\ unsubs' = [unsubs EXCEPT ![o].scoped = "absent"]
    /\ IF unsubs[o].scoped = "Some" /\ alive
       THEN RawUnsubscribe(unsubs[o].id)
       ELSE UNCHANGED <<subscribers, needs_delete>>
    /\ log' = log \o <<Ev("drop", o, 0, Caller, CurPass, state),
                        Ev("cancel", o,
                           IF unsubs[o].scoped = "Some" THEN 1 ELSE 0,
                           Caller, CurPass, state)>>
    /\ UNCHANGED <<value, state, next_id, alive, stack>>
    /\ UNCHANGED cellY

\* the last Signal handle is dropped: the Rc frees InnerSignal, and with it
\* the registry and every Notifier
DropSignal ==
    /\ alive /\ stack = <<>>
    /\ alive' = FALSE
    /\ subscribers' = <<>>
    /\ UNCHANGED <<value, state, next_id, needs_delete, unsubs, stack, log>>
    /\ UNCHANGED cellY

\* ------------------------------------------------------------------ spec
Next ==
    \/ \E f \in Closures : TryMutate(f)
    \/ NotifyInvoke
    \/ NotifySkip
    \/ NotifyReturn
    \/ NotifyFinish
    \/ ForEach
    \/ ForEachReturn
    \/ \E o \in Obs, which \in {"orig", "clone", "scoped"} :
          Unsubscribe(o, which)
    \/ \E o \in Obs : CloneUnsubscriber(o)
    \/ \E o \in Obs : Droppable(o)
    \/ \E o \in Obs : Take(o)
    \/ \E o \in Obs : DropScoped(o)
    \/ DropSignal

Spec == Init /\ [][Next]_vars

\* ------------------------------------------------------ the second cell
\* The same RawSignal code running on cell Y.  Its frames and events carry
\* a Y; no capability of Y is cancelled and its registry does not fill, so
\* its entries are never tombstoned and its sweep never runs.
XVars == <<value, state, subscribers, next_id, needs_delete, alive, unsubs>>

\* one guard shared by all cells
RejectedGlobally == cellY.state # "Idling" \/ state # "Idling"

\* the guard of try_mutate, on Y
MutateRejectedY == cellY.state # "Idling"

\* Signal::try_mutate(f) on Y
TryMutateY(f) ==
    /\ UserCode
    /\ Nops < MaxOps
    /\ IF MutateRejectedY
       THEN /\ log' = Append(log, Ev("errY", 0, cellY.value, Caller, 0,
                                     cellY.state))
            /\ UNCHANGED <<cellY, stack>>
       ELSE /\ NpassY < MaxMuts
            /\ cellY' = [cellY EXCEPT !.state = "Mutating",
                                      !.value = Apply(f, @)]
            /\ stack' = Append(stack, Frame("mutateY", 0, 0, cellY.state))
            /\ log' = Append(log, Ev("mutY", 0, Apply(f, cellY.value),
                                     Caller, NpassY + 1, cellY.state))
    /\ UNCHANGED XVars

\* notify_all on Y, loop body: (*notifier.notify)()
NotifyInvokeY ==
    /\ stack # <<>> /\ Top.kind = "mutateY"
    /\ Top.i < Len(cellY.subscribers)
    /\ ~Deleted(cellY.subscribers[Top.i + 1])
    /\ LET n == cellY.subscribers[Top.i + 1] IN
         /\ stack' = Append(stack, Frame("cbY", n.obs, 0, cellY.state))
         /\ log' = Append(log, Ev("callY", n.obs, cellY.value, 0, NpassY,
                                  cellY.state))
    /\ UNCHANGED <<cellY, XVars>>

\* the callback invoked by notify_all on Y returns: i += 1
NotifyReturnY ==
    /\ Len(stack) >= 2 /\ Top.kind = "cbY"
    /\ stack[Len(stack) - 1].kind = "mutateY"
    /\ stack' = [Pop(stack) EXCEPT ![Len(stack) - 1].i = @ + 1]
    /\ UNCHANGED <<cellY, XVars, log>>

\* notify_all on Y, loop exit: the sweep; then try_mutate sets Idling
NotifyFinishY ==
    /\ stack # <<>> /\ Top.kind = "mutateY"
    /\ Top.i >= Len(cellY.subscribers)
    /\ cellY' = [cellY EXCEPT
                    !.subscribers = IF cellY.needs_delete THEN Sweep(@)
                                                          ELSE @,
                    !.needs_delete = FALSE,
                    !.state = FinishedState]
    /\ stack' = Pop(stack)
    /\ log' = Append(log, Ev("okY", 0, cellY.value, 0, NpassY, cellY.state))
    /\ UNCHANGED XVars

\* RawSignal::for_each on Y, tail: take the id, push the notifier
RegisterY(c, o) ==
    [c EXCEPT !.next_id = SaturatingAdd(@),
              !.subscribers = Push(@, Notifier(c.next_id, o))]

\* Signal::for_each on Y, entry
ForEachY ==
    /\ UserCode
    /\ Nops < MaxOps /\ NsubsY < MaxSubs
    /\ Len(cellY.subscribers) < VecCap
    /\ LET o == NsubsY + 1
           sub == Ev("subY", o, cellY.value, Caller, 0, cellY.state)
       IN IF cellY.state # "Mutating"
          THEN /\ cellY' = [cellY EXCEPT !.state = "Subscribing"]
               /\ stack' = stack \o
                             <<Frame("for_eachY", o, 0, cellY.state),
                               Frame("cbY", o, 0, "Subscribing")>>
               /\ log' = log \o
                           <<sub, Ev("callY", o, cellY.value, 0, 0,
                                     cellY.state)>>
          ELSE /\ cellY' = RegisterY(cellY, o)
               /\ log' = log \o
                           <<sub, Ev("retY", o, cellY.next_id, 0, 0,
                                     cellY.state)>>
               /\ UNCHANGED stack
    /\ UNCHANGED XVars

\* the initial call made by for_each on Y returns
ForEachReturnY ==
    /\ Len(stack) >= 2 /\ Top.kind = "cbY"
    /\ stack[Len(stack) - 1].kind = "for_eachY"
    /\ LET fr == stack[Len(stack) - 1] IN
         /\ cellY' = RegisterY([cellY EXCEPT !.state = RestoredState(fr)],
                               fr.obs)
         /\ log' = Append(log, Ev("retY", fr.obs, cellY.next_id, 0, 0,
                                  cellY.state))
    /\ stack' = Pop(Pop(stack))
    /\ UNCHANGED XVars

\* two cells X and Y, subscribed to and mutated from the top level and from
\* each other's callbacks
NextTwo ==
    \/ \E f \in Closures : TryMutate(f)
    \/ NotifyInvoke
    \/ NotifyReturn
    \/ NotifyFinish
    \/ ForEach
    \/ ForEachReturn
    \/ \E f \in Closures : TryMutateY(f)
    \/ NotifyInvokeY
    \/ NotifyReturnY
    \/ NotifyFinishY
    \/ ForEachY
    \/ ForEachReturnY

SpecTwo == Init /\ [][NextTwo]_vars

\* a cell in use for a while: MaxId - 1 subscriptions were made and cancelled
\* while Idling (the history starts here, with no capability left over)
InitUsed ==
    /\ value = 0
    /\ state = "Idling"
    /\ subscribers = <<>>
    /\ next_id = MaxId
    /\ needs_delete = FALSE
    /\ alive = TRUE
    /\ unsubs = [o \in Obs |-> NoUnsub]
    /\ cellY = NewCell
    /\ stack = <<>>
    /\ log = <<>>

SpecUsed == InitUsed /\ [][Next]_vars

\* the code runs on: the loop of notify_all takes its next step, and every
\* callback returns to its caller
Fairness ==
    /\ WF_vars(NotifyInvoke)
    /\ WF_vars(NotifySkip)
    /\ WF_vars(NotifyReturn)
    /\ WF_vars(NotifyFinish)
    /\ WF_vars(ForEachReturn)

FairSpec == Spec /\ Fairness

TypeOK ==
    /\ value \in Values
    /\ state \in {"Idling", "Mutating", "Subscribing"}
    /\ next_id \in 1..MaxId
    /\ needs_delete \in BOOLEAN
    /\ alive \in BOOLEAN

\* ================================================================ claims

\* C1: a try_mutate called from inside a notifier callback of the cell's
\* in-progress notification pass returns the error and leaves the stored
\* value (and the state) unchanged: the closure is not applied.
C1_SingleWriter ==
    [][\A f \in Closures :
         (InPass /\ TryMutate(f)) =>
            /\ value' = value
            /\ state' = state
            /\ stack' = stack
            /\ log'[Len(log')].t = "err"]_vars

\* a try_mutate was called by a callback during a pass and was rejected
C1_Witness ==
    \E j \in 1..Len(log) :
        log[j].t = "err" /\ log[j].pass > 0 /\ log[j].by > 0
        /\ log[j].st = "Mutating"

\* C2: a for_each called while the cell is Idling calls the new callback
\* exactly once, at once, with the current value, and until it returns no
\* registered notifier is called (only initial calls of nested for_each).
C2_ImmediateFire ==
    \A o \in 1..Nsubs :
        log[SubIdx(o)].st = "Idling" =>
            /\ Calls(o, 0) = {SubIdx(o) + 1}
            /\ log[SubIdx(o) + 1].val = log[SubIdx(o)].val
            /\ \A j \in (SubIdx(o) + 2)..
                        (IF Returned(o) THEN RetIdx(o) ELSE Len(log)) :
                  log[j].t = "call" => (log[j].pass = 0 /\ log[j].obs > o)

\* a for_each made while Idling, with two notifiers registered, has returned
C2_Witness ==
    \E o \in 1..Nsubs :
        /\ Returned(o) /\ log[SubIdx(o)].st = "Idling"
        /\ Len(subscribers) >= 3
        /\ log[SubIdx(o)].val > 0

\* C3: an observer subscribed from inside a callback of the in-progress
\* pass is not called at subscribe time; once that pass is over it has been
\* called exactly once in that pass, with the value of the pass's mutation
\* (provided its identifier was not cancelled during the pass).
C3_ReentrantSubscribe ==
    \A o \in 1..Nsubs :
        LET p == log[SubIdx(o)].pass IN
        p > 0 =>
            /\ Calls(o, 0) = {}
            /\ Cardinality(Calls(o, p)) <= 1
            /\ \A j \in Calls(o, p) : log[j].val = MutVal(p)
            /\ (PassOver(p) /\ CancelsOfIdIn(unsubs[o].id, p) = {})
                  => Cardinality(Calls(o, p)) = 1

\* three subscribers, the 2nd subscribed a 4th during the pass, pass over
C3_Witness ==
    /\ Nsubs = 4 /\ Npass = 1 /\ PassOver(1)
    /\ \A o \in 1..3 : log[SubIdx(o)].pass = 0 /\ log[SubIdx(o)].by = 0
    /\ log[SubIdx(4)].pass = 1 /\ log[SubIdx(4)].by = 2
    /\ RegAtStart(1) = <<1, 2, 3>>
    /\ Cardinality(Calls(4, 1)) = 1

\* the scenario of C4: subscribe A; set 5; set 10, during which A's callback
\* subscribes B; set 15; everything has returned
C4_Scenario ==
    /\ stack = <<>> /\ alive
    /\ Len(OpEvents) = 5
    /\ OpEvents[1].t = "sub" /\ OpEvents[1].obs = 1 /\ OpEvents[1].by = 0
    /\ OpEvents[1].val = 0
    /\ OpEvents[2].t = "mut" /\ OpEvents[2].val = 5 /\ OpEvents[2].by = 0
    /\ OpEvents[3].t = "mut" /\ OpEvents[3].val = 10 /\ OpEvents[3].by = 0
    /\ OpEvents[4].t = "sub" /\ OpEvents[4].obs = 2 /\ OpEvents[4].by = 1
    /\ OpEvents[4].pass = 2
    /\ OpEvents[5].t = "mut" /\ OpEvents[5].val = 15 /\ OpEvents[5].by = 0

\* C4 as stated: in the scenario B does not receive 10; A = [0,5,10,15]
\* and B = [15].
C4_Original ==
    C4_Scenario => (Seen(1) = <<0, 5, 10, 15>> /\ Seen(2) = <<15>>)

\* C4 amended: in the scenario B is not called at subscribe time but is
\* called once with 10 later in the pass of set(10); A = [0,5,10,15] and
\* B = [10,15].
C4_EndToEnd ==
    C4_Scenario =>
        /\ Seen(1) = <<0, 5, 10, 15>>
        /\ Seen(2) = <<10, 15>>
        /\ Calls(2, 0) = {}

C4_Witness == C4_Scenario /\ Len(subscribers) = 2

\* C5: a notifier cancelled during a pass before the pass reached it is not
\* called in that pass, and every notifier that was live when the pass
\* started and whose identifier was not cancelled during the pass is called
\* exactly once in that pass.
C5_DeferredDeletion ==
    \A p \in 1..Npass :
        /\ \A m \in Range(RegAtStart(p)) :
              /\ Cardinality(Calls(m, p)) <= 1
              /\ (PassOver(p) /\ CancelsOfIdIn(unsubs[m].id, p) = {})
                    => Cardinality(Calls(m, p)) = 1
        /\ \A j \in 1..Len(log) :
              (/\ log[j].t = "cancel" /\ log[j].val = 1 /\ log[j].pass = p
               /\ IdUnique(log[j].obs))
                 => \A c \in Calls(log[j].obs, p) : c < j

\* subscribers 1, 2, 3; during the pass the callback of 1 cancelled 2; the
\* pass is over, 2 was skipped and 3 was called once
C5_Witness ==
    /\ Npass = 1 /\ PassOver(1)
    /\ RegAtStart(1) = <<1, 2, 3>>
    /\ \E j \in 1..Len(log) :
          /\ log[j].t = "cancel" /\ log[j].val = 1 /\ log[j].obs = 2
          /\ log[j].by = 1 /\ log[j].pass = 1
    /\ Calls(2, 1) = {}
    /\ Cardinality(Calls(1, 1)) = 1
    /\ Cardinality(Calls(3, 1)) = 1

\* C6: whenever the cell is Idling the registry holds no tombstoned entry
\* (the sweep at the end of the pass removed them).
C6_PostPassSweep ==
    (alive /\ state = "Idling") =>
        \A j \in 1..Len(subscribers) : ~subscribers[j].deleted

\* C7: a notifier that was registered and whose identifier was never
\* cancelled is in the registry, live, as long as the cell lives.
C7_NotifierLifetime ==
    alive =>
        \A o \in 1..Nsubs :
            (Returned(o) /\ CancelsOfId(unsubs[o].id) = {}) =>
                \E j \in 1..Len(subscribers) :
                    subscribers[j].obs = o /\ ~subscribers[j].deleted

\* C8: the identifiers returned by for_each while the counter is below its
\* maximum are strictly increasing: an identifier below the maximum is
\* smaller than every identifier returned after it.
C8_MonotonicIdentity ==
    \A a, b \in 1..Len(Issued) :
        (a < b /\ Issued[a] < MaxId) => Issued[a] < Issued[b]

\* three identifiers were returned, with a cancellation and a nested
\* for_each among the calls
C8_Witness ==
    /\ Len(Issued) >= 3
    /\ \E j \in 1..Len(log) : log[j].t = "cancel" /\ log[j].val = 1
    /\ \E j \in 1..Len(log) : log[j].t = "sub" /\ log[j].by > 0

\* C9: no two for_each calls on the cell are given the same identifier,
\* also when there are more calls than the counter has values.
C9_IdentityUnderOverflow ==
    \A a, b \in 1..Len(Issued) : a # b => Issued[a] # Issued[b]

\* C10: an unsubscribe on a capability of a subscription that was already
\* cancelled (the same capability or a clone), or after the cell was
\* dropped, changes nothing in the cell.
C10_IdempotentCancel ==
    [][\A o \in Obs, which \in {"orig", "clone"} :
         (/\ Unsubscribe(o, which)
          /\ ((\E j \in 1..Len(log) :
                  log[j].t = "cancel" /\ log[j].obs = o) \/ ~alive))
            => UNCHANGED <<value, state, subscribers, next_id,
                           needs_delete>>]_vars

\* C11: whenever try_mutate returns the error, the mutation closure was not
\* invoked, no notifier was invoked, and the value, the state flag, the
\* registry, the id counter and the sweep-needed flag are as before the call.
C11_FailedMutate ==
    [][\A f \in Closures :
         (TryMutate(f) /\ log'[Len(log')].t = "err") =>
            /\ UNCHANGED <<value, state, subscribers, next_id, needs_delete>>
            /\ stack' = stack
            /\ Len(log') = Len(log) + 1]_vars

\* a try_mutate has just failed while a sweep was pending on a non-empty
\* registry
C11_Witness ==
    /\ log # <<>> /\ log[Len(log)].t = "err"
    /\ needs_delete /\ subscribers # <<>>

Detached(o) ==
    \E j \in 1..Len(log) :
        log[j].t = "take" /\ log[j].obs = o /\ o \in Range(log[j].reg)

\* a cancel called by the user on a capability of observer o that held its
\* reference (not the cancel run by Drop at a scope exit)
ExplicitlyCancelled(o) ==
    \E j \in 1..Len(log) :
        /\ log[j].t = "cancel" /\ log[j].obs = o /\ log[j].val = 1
        /\ (j > 1 => log[j - 1].t # "drop")

\* scope exit (the mechanism C13 relies on): when a scoped capability goes out of scope without
\* having been detached, cancel runs once on its subscription; a take()
\* cancels nothing and hands the reference over unchanged.
C13_ScopeExit ==
    [][\A o \in Obs :
         /\ DropScoped(o) =>
              /\ unsubs'[o].scoped = "absent"
              /\ IF unsubs[o].scoped = "Some" /\ alive
                    /\ SearchResults(unsubs[o].id) # {}
                 THEN \E index \in SearchResults(unsubs[o].id) :
                        subscribers' =
                           IF state = "Mutating"
                           THEN [subscribers EXCEPT ![index].deleted = TRUE]
                           ELSE Remove(subscribers, index)
                 ELSE subscribers' = subscribers
         /\ Take(o) =>
              /\ subscribers' = subscribers
              /\ needs_delete' = needs_delete
              /\ unsubs'[o].orig = unsubs[o].scoped
              /\ unsubs'[o].scoped = "absent"]_vars

\* C13: after a scoped capability was converted with take(), the subscription
\* stays registered until the returned capability is cancelled explicitly.
C13_ScopedCapability ==
    \A o \in 1..Nsubs :
        (alive /\ Detached(o) /\ ~ExplicitlyCancelled(o)) =>
            \E j \in 1..Len(subscribers) :
                subscribers[j].obs = o /\ ~subscribers[j].deleted

\* C14: within one notification pass the callbacks are invoked in strictly
\* increasing identifier order (subscription order).
C14_NotificationOrder ==
    \A a \in 1..Len(log) : \A b \in 1..Len(log) :
        (/\ a < b
         /\ log[a].t = "call" /\ log[b].t = "call"
         /\ log[a].pass > 0 /\ log[a].pass = log[b].pass)
        => unsubs[log[a].obs].id < unsubs[log[b].obs].id

\* C15: a try_mutate invoked from inside a subscriber's immediate initial
\* callback (state Subscribing) returns the error, does not change the value
\* and runs no notification pass.
C15_RejectedWhileSubscribing ==
    [][\A f \in Closures :
         (state = "Subscribing" /\ TryMutate(f)) =>
            /\ log' = Append(log, log'[Len(log')])
            /\ log'[Len(log')].t = "err"
            /\ value' = value
            /\ state' = "Subscribing"
            /\ stack' = stack
            /\ Npass' = Npass]_vars

\* a try_mutate made by an initial callback was rejected
C15_Witness ==
    \E j \in 1..Len(log) :
        /\ log[j].t = "err" /\ log[j].st = "Subscribing"
        /\ log[j].by > 0 /\ log[j].pass = 0

\* the process aborted in a failed push
Aborted == stack # <<>> /\ Top.kind = "abort"

\* the operations on the cell that are in progress, outermost first
ActiveOps ==
    SelectSeq(stack, LAMBDA fr : fr.kind \in {"mutate", "for_each"})

\* C16: the state is the one of the innermost operation in progress
\* (Subscribing during an initial call, also after a nested subscribe
\* returned; Mutating during a pass), and Idling whenever no operation on the
\* cell is in progress.
C16_StateRestoration ==
    ~Aborted =>
        state = IF ActiveOps = <<>> THEN "Idling"
                ELSE IF ActiveOps[Len(ActiveOps)].kind = "mutate"
                     THEN "Mutating"
                     ELSE "Subscribing"

\* after a completed pass, a subscribe nested in another subscribe's initial
\* call has just returned and the outer initial call is still running
C16_Witness ==
    /\ Npass >= 1
    /\ Len(stack) = 2 /\ stack[1].kind = "for_each" /\ Top.kind = "cb"
    /\ log[Len(log)].t = "ret"
    /\ state = "Subscribing"

\* C17: while a notification pass is in progress (state Mutating, the pass's
\* own sweep not yet reached) no entry is physically removed and no entry
\* changes position: the length never decreases, every entry keeps its place
\* and identity, and an entry only changes by becoming tombstoned, which
\* sets the sweep-needed flag.
C17_IterationSafety ==
    [][(state = "Mutating" /\ InPass') =>
         /\ Len(subscribers') >= Len(subscribers)
         /\ \A j \in 1..Len(subscribers) :
               /\ subscribers'[j].id = subscribers[j].id
               /\ subscribers'[j].obs = subscribers[j].obs
               /\ subscribers[j].deleted => subscribers'[j].deleted
               /\ (subscribers'[j].deleted /\ ~subscribers[j].deleted)
                     => needs_delete'
         /\ needs_delete => needs_delete']_vars

\* during a pass a cancel has tombstoned an entry that is followed by other
\* entries, and the callback that issued it is still running
C17_Witness ==
    /\ state = "Mutating" /\ needs_delete
    /\ Top.kind = "cb"
    /\ log[Len(log)].t = "cancel" /\ log[Len(log)].val = 1
    /\ \E j \in 1..Len(subscribers) :
          subscribers[j].deleted /\ j < Len(subscribers)

\* C18: an unsubscribe(id) issued while the cell is not Mutating removes
\* exactly one entry, one whose identifier is id, and leaves every other
\* entry, their relative order and their liveness unchanged; if no entry has
\* that identifier the registry is unchanged. The sweep-needed flag is not
\* touched.
C18_TargetedRemoval ==
    [][\A o \in Obs : \A which \in {"orig", "clone", "scoped"} :
         (/\ state # "Mutating" /\ alive
          /\ unsubs[o][which] = "Some"
          /\ Unsubscribe(o, which)) =>
            /\ needs_delete' = needs_delete
            /\ IF \E j \in 1..Len(subscribers) :
                     subscribers[j].id = unsubs[o].id
               THEN \E j \in 1..Len(subscribers) :
                      /\ subscribers[j].id = unsubs[o].id
                      /\ subscribers' =
                            [k \in 1..(Len(subscribers) - 1) |->
                               IF k < j THEN subscribers[k]
                                        ELSE subscribers[k + 1]]
               ELSE subscribers' = subscribers]_vars

\* with the cell Idling, the second of three subscriptions has just been
\* cancelled: the first and the third remain, in that order
C18_Witness ==
    /\ state = "Idling" /\ stack = <<>> /\ log # <<>>
    /\ log[Len(log)].t = "cancel" /\ log[Len(log)].val = 1
    /\ log[Len(log)].obs = 2
    /\ LiveObs = <<1, 3>> /\ Len(subscribers) = 2

\* C19: from the end of the mutation closure to the return to Idling the
\* stored value does not change, and every callback invoked in the pass is
\* given the value produced by the closure of the try_mutate that started
\* the pass.
C19_ValueStability ==
    [][InPass =>
         /\ value' = value
         /\ \A j \in (Len(log) + 1)..Len(log') :
               (log'[j].t = "call" /\ log'[j].pass > 0) =>
                   /\ log'[j].pass = Npass
                   /\ log'[j].val = MutVal(Npass)]_vars

\* a pass that changed the value has called two observers, both with the
\* new value
C19_Witness ==
    \E a \in 1..Len(log) : \E b \in 1..Len(log) :
        /\ log[a].t = "call" /\ log[b].t = "call"
        /\ log[a].pass = 1 /\ log[b].pass = 1
        /\ log[a].obs # log[b].obs
        /\ log[a].val = 5 /\ log[b].val = 5
        /\ MutVal(1) = 5

InCallbackOfX == IF stack = <<>> THEN FALSE ELSE Top.kind = "cb" /\ InPass

\* a notifier callback of Y, invoked by Y's pass, is running
InCallbackOfY ==
    IF stack = <<>> THEN FALSE
    ELSE Top.kind = "cbY" /\ cellY.state = "Mutating"

\* a pass of Y is in progress further up the call chain
InPassY == \E j \in 1..Len(stack) : stack[j].kind = "mutateY"

\* C21: the guard is per cell.  A try_mutate on Y made by a notifier
\* callback of X is accepted exactly when Y itself is Idling, X being
\* Mutating does not block it, and it is rejected, changing nothing, when a
\* pass of Y is in progress further up the call chain; the same holds with
\* the cells exchanged.
C21_PerCellGuard ==
    [][\A f \in Closures :
         /\ (InCallbackOfX /\ TryMutateY(f)) =>
               /\ state = "Mutating" /\ state' = "Mutating"
               /\ IF cellY.state = "Idling"
                  THEN /\ ~InPassY
                       /\ cellY'.state = "Mutating"
                       /\ cellY'.value = Apply(f, cellY.value)
                       /\ log'[Len(log')].t = "mutY"
                       /\ stack'[Len(stack')].kind = "mutateY"
                  ELSE /\ cellY' = cellY
                       /\ stack' = stack
                       /\ log'[Len(log')].t = "errY"
               /\ InPassY => cellY.state = "Mutating"
         /\ (InCallbackOfY /\ TryMutate(f)) =>
               /\ cellY' = cellY
               /\ IF state = "Idling"
                  THEN /\ ~InPass
                       /\ state' = "Mutating"
                       /\ value' = Apply(f, value)
                       /\ log'[Len(log')].t = "mut"
                  ELSE /\ value' = value /\ state' = state
                       /\ stack' = stack
                       /\ log'[Len(log')].t = "err"
               /\ InPass => state = "Mutating"]_vars

\* Y's callback mutated X while Y was Mutating, and X's callback has just
\* been refused a mutation of Y, whose pass is further up the call chain
C21_Witness ==
    /\ Len(stack) = 4
    /\ stack[1].kind = "mutateY" /\ stack[2].kind = "cbY"
    /\ stack[3].kind = "mutate" /\ stack[4].kind = "cb"
    /\ log[Len(log)].t = "errY"
    /\ state = "Mutating" /\ cellY.state = "Mutating"

\* the counter has not saturated: the maximum was never issued
NotSaturated == \A j \in 1..Len(Issued) : Issued[j] < MaxId

\* C22: as long as the id counter has not saturated, the registry's entries,
\* live and tombstoned, are in strictly increasing identifier order by
\* position, also after nested subscribes, and the binary search of
\* unsubscribe finds every identifier that is present.
C22_RegistryOrder ==
    NotSaturated =>
        /\ \A a \in 1..Len(subscribers) : \A b \in 1..Len(subscribers) :
              a < b => subscribers[a].id < subscribers[b].id
        /\ \A j \in 1..Len(subscribers) :
              BinarySearch(subscribers, subscribers[j].id) = j

\* the registry holds an inner subscriber before the outer one whose initial
\* call subscribed it, and the outer one's entry is tombstoned
C22_Witness ==
    /\ NotSaturated
    /\ Len(subscribers) = 2
    /\ subscribers[1].obs = 2 /\ subscribers[2].obs = 1
    /\ subscribers[2].deleted /\ ~subscribers[1].deleted

====
